---- MODULE Spec2Model ----
(***************************************************************************)
(* Dependency graph visualizer (src/comit_4.py, stage 4): configuration,   *)
(* forward traversal, reverse traversal over the inverted fixture graph,   *)
(* and the level analysis run by the report.                               *)
(*                                                                         *)
(* Package names and the filter are sequences of one-character strings so  *)
(* that lower() and the substring test are computed, not assumed.          *)
(* Python's None and "" are both falsy wherever the traversal reads the    *)
(* filter, so an absent filter is the empty sequence; an absent max_depth  *)
(* is the empty sequence and a given one is <<d>>.                         *)
(***************************************************************************)
EXTENDS Integers, Sequences, FiniteSets, TLC

VARIABLES
    config,                    \* self.config (the parsed arguments before create_config)
    source,                    \* what the package source holds: name -> dependency list
    universe_order,            \* the order in which the fixture enumerates its packages
    failing,                   \* packages whose registry lookup raises
    pc,                        \* position in run()
    stack,                     \* active invocations of the recursive traversal
    dependency_graph,          \* self.dependency_graph
    reverse_dependency_graph,  \* self.reverse_dependency_graph
    visited_packages,          \* self.visited_packages
    cycle_detected,            \* self.cycle_detected
    lookups,                   \* log of the lookups issued: <<kind, name>>
    levels,                    \* the levels computed by display_detailed_analysis
    earlier,                   \* what an earlier build over the same inputs left, <<>> if none
    file_lines,                \* the lines of the text fixture being loaded
    lines_read                 \* how many of them load_test_repository has gone through

vars == <<config, source, universe_order, failing, pc, stack, dependency_graph,
          reverse_dependency_graph, visited_packages, cycle_detected, lookups, levels,
          earlier, file_lines, lines_read>>

----------------------------------------------------------------------------
(* Bounds of the model *)

\* total number of edges of a generated graph whose lists are free of
\* duplicates and self-dependencies
MaxEdges == 5
\* total number of edges of a generated graph with arbitrary lists
MaxEdgesAny == 3
\* largest --max-depth argument
MaxDepthArg == 3
\* largest number of lines of a text fixture that is loaded line by line
MaxLines == 2
\* total number of edges of a generated graph that is read in several orders
MaxEdgesReordered == 4

----------------------------------------------------------------------------
(* Names *)

PkgA == <<"A">>
PkgB == <<"B">>
PkgC == <<"C">>
PkgD == <<"D">>
PkgE == <<"E">>
PkgF == <<"F">>
PkgAb == <<"A", "b">>

\* the packages of the generated graphs, in the order their lines are written
GenOrder == <<PkgA, PkgB, PkgC, PkgAb>>
GenNames == {GenOrder[i] : i \in 1..Len(GenOrder)}

RECURSIVE SeqToSet(_)
SeqToSet(s) == IF s = <<>> THEN {} ELSE {Head(s)} \cup SeqToSet(Tail(s))

\* str.lower() on one character, and on a string
LowerChar(c) ==
    CASE c = "A" -> "a" [] c = "B" -> "b" [] c = "C" -> "c" [] c = "D" -> "d"
      [] c = "E" -> "e" [] c = "F" -> "f" [] OTHER -> c

Lower(s) == [i \in 1..Len(s) |-> LowerChar(s[i])]

\* Python's `sub in s` on strings
Contains(s, sub) ==
    \E k \in 0..(Len(s) - Len(sub)) :
        \A i \in 1..Len(sub) : s[k + i] = sub[i]

\* str.strip(): the string without its leading and trailing blanks
RECURSIVE LStrip(_)
LStrip(s) == IF s # <<>> /\ Head(s) = " " THEN LStrip(Tail(s)) ELSE s

RECURSIVE RStrip(_)
RStrip(s) == IF s # <<>> /\ s[Len(s)] = " " THEN RStrip(SubSeq(s, 1, Len(s) - 1)) ELSE s

Strip(s) == RStrip(LStrip(s))

----------------------------------------------------------------------------
(* The environment: the file system and the URLs *)

NoneVal == "None"

UrlNuget == "https://api.nuget.org/v3/index.json"
UrlFtp == "ftp://repo"

StartsWithHttp(url) == url \in {UrlNuget}

PathFixture == "repo.txt"          \* a file in the A -> B C format
PathEmptyFile == "empty.txt"       \* a file with no line holding ->
PathMissing == "missing.txt"       \* no such file

PathNuspecDir == "offline_nuget"   \* a directory of .nuspec files
PathEmptyDir == "emptydir"         \* a directory without .nuspec files

PathExists(p) == p \in {PathFixture, PathEmptyFile, PathNuspecDir, PathEmptyDir}
IsFile(p) == p \in {PathFixture, PathEmptyFile}
IsDir(p) == p \in {PathNuspecDir, PathEmptyDir}
HasNuspecFiles(p) == p = PathNuspecDir
\* TestRepository.load_test_repository raises when no line holds ->
FixtureLoads(p) == p = PathFixture

----------------------------------------------------------------------------
(* Config.validate and create_config *)

ErrIf(cond, e) == IF cond THEN <<e>> ELSE <<>>

\* mutant: a configuration naming both a URL and a path is not rejected
ValidateErrors_AllowsTwoSources(c) ==
       (IF c.package_name = <<>> THEN <<"package_required">>
        ELSE ErrIf(Strip(c.package_name) = <<>>, "package_blank"))
    \o ErrIf(c.repository_url = "" /\ c.test_repo_path = "", "no_source")
    \o ErrIf(c.repository_url # "" /\ ~StartsWithHttp(c.repository_url), "url_scheme")
    \o ErrIf(c.test_repo_path # "" /\ ~PathExists(c.test_repo_path), "repo_missing")
    \o ErrIf(c.work_mode # NoneVal /\ c.work_mode \notin {"online", "offline"}, "bad_mode")
    \o ErrIf(c.max_depth # <<>> /\ c.max_depth[1] < 1, "depth_not_positive")

\* the list of errors validate returns
ValidateErrors(c) ==
       (IF c.package_name = <<>> THEN <<"package_required">>
        ELSE ErrIf(Strip(c.package_name) = <<>>, "package_blank"))
    \o ErrIf(c.repository_url = "" /\ c.test_repo_path = "", "no_source")
    \o ErrIf(c.repository_url # "" /\ c.test_repo_path # "", "two_sources")
    \o ErrIf(c.repository_url # "" /\ ~StartsWithHttp(c.repository_url), "url_scheme")
    \o ErrIf(c.test_repo_path # "" /\ ~PathExists(c.test_repo_path), "repo_missing")
    \o ErrIf(c.work_mode # NoneVal /\ c.work_mode \notin {"online", "offline"}, "bad_mode")
    \o ErrIf(c.max_depth # <<>> /\ c.max_depth[1] < 1, "depth_not_positive")

\* validate's side effect: the work mode is derived from the source when not given
DetectedMode(c) ==
    IF c.work_mode # NoneVal THEN c.work_mode
    ELSE IF c.repository_url # "" THEN "online"
    ELSE IF c.test_repo_path # "" THEN "offline"
    ELSE NoneVal

Validated(c) == [c EXCEPT !.work_mode = DetectedMode(c)]

----------------------------------------------------------------------------
(* The package source *)

\* dict.get(name, []) on the loaded fixture or the registry
SourceGet(name) == IF name \in DOMAIN source THEN source[name] ELSE <<>>

\* detect_repository_type: "raise" stands for the exception
RepoType(path) ==
    IF path # "" /\ IsFile(path) THEN "test_format"
    ELSE IF path # "" /\ IsDir(path) /\ HasNuspecFiles(path) THEN "nuspec_offline"
    ELSE "raise"

\* whether the lookup of `name` raises inside get_dependencies
LookupRaises(c, name) ==
    IF c.work_mode = "online"
    THEN c.repository_url = "" \/ name \in failing
    ELSE \/ RepoType(c.test_repo_path) = "raise"
         \/ RepoType(c.test_repo_path) = "test_format" /\ ~FixtureLoads(c.test_repo_path)

\* mutant: the last name of the list is lost
get_dependencies_DropsLast(name) ==
    IF LookupRaises(config, name) \/ SourceGet(name) = <<>> THEN <<>>
    ELSE SubSeq(SourceGet(name), 1, Len(SourceGet(name)) - 1)

\* get_dependencies: an exception is caught and an empty list returned
get_dependencies(name) ==
    IF LookupRaises(config, name) THEN <<>> ELSE SourceGet(name)

\* should_skip_package
should_skip_package(package_name) ==
    /\ config.filter_substring # <<>>
    /\ Contains(Lower(package_name), Lower(config.filter_substring))

----------------------------------------------------------------------------
(* The recursive traversal, as a stack of invocations *)

Top == stack[Len(stack)]

\* mutant: the recursive call hands its own path on without the package
CurCall_PathNotExtended ==
    IF pc = "call_root"
    THEN [pkg |-> config.package_name, depth |-> 0, path |-> <<>>]
    ELSE [pkg |-> Top.deps[Top.i], depth |-> Top.depth + 1, path |-> Top.path]

\* the invocation about to be entered: the root call of run(), or the call
\* the loop of the innermost active invocation makes next
CurCall ==
    IF pc = "call_root"
    THEN [pkg |-> config.package_name, depth |-> 0, path |-> <<>>]
    ELSE [pkg |-> Top.deps[Top.i], depth |-> Top.depth + 1,
          path |-> Append(Top.path, Top.pkg)]

HasCall ==
    \/ pc = "call_root"
    \/ pc = "traverse" /\ stack # <<>> /\ Top.i <= Len(Top.deps)

\* mutant: the caller's loop stays at the element it has just handled
Advanced_Stuck == IF pc = "call_root" THEN <<>> ELSE stack

\* the caller's loop moves on to its next element
Advanced == IF pc = "call_root" THEN <<>>
            ELSE [stack EXCEPT ![Len(stack)].i = @ + 1]

\* invocations whose loop is exhausted return to their caller
RECURSIVE Unwind(_)
Unwind(stk) ==
    IF stk # <<>> /\ stk[Len(stk)].i > Len(stk[Len(stk)].deps)
    THEN Unwind(SubSeq(stk, 1, Len(stk) - 1))
    ELSE stk

\* run() goes on to the report once the root invocation has returned
PcAfter(stk) == IF stk = <<>> THEN "display" ELSE "traverse"

\* mutant: the comparison is off by one
DepthLimitReached_OffByOne(depth) ==
    /\ config.max_depth # <<>>
    /\ config.max_depth[1] # 0
    /\ depth > config.max_depth[1]

\* if self.config.max_depth and current_depth >= self.config.max_depth
DepthLimitReached(depth) ==
    /\ config.max_depth # <<>>
    /\ config.max_depth[1] # 0
    /\ depth >= config.max_depth[1]

\* mutant: only the immediate caller is compared
InPath_ParentOnly(pkg, path) == path # <<>> /\ path[Len(path)] = pkg

\* mutant: the global visited set is taken for the ancestor chain
InPath_Visited(pkg, path) == pkg \in visited_packages

\* if start_package in path
InPath(pkg, path) == \E i \in 1..Len(path) : path[i] = pkg

\* what an invocation that returns before expanding leaves behind
EarlyReturn ==
    /\ stack' = Unwind(Advanced)
    /\ pc' = PcAfter(Unwind(Advanced))
    /\ UNCHANGED <<config, source, universe_order, failing, earlier,
                   file_lines, lines_read, dependency_graph,
                   reverse_dependency_graph, visited_packages, lookups, levels>>

DepthReturn ==
    /\ HasCall
    /\ DepthLimitReached(CurCall.depth)
    /\ EarlyReturn
    /\ UNCHANGED cycle_detected

\* mutant: the ancestor chain is consulted before the depth limit
CycleReturn_BeforeDepthCheck ==
    /\ HasCall
    /\ InPath(CurCall.pkg, CurCall.path)
    /\ cycle_detected' = TRUE
    /\ EarlyReturn

CycleReturn ==
    /\ HasCall
    /\ ~DepthLimitReached(CurCall.depth)
    /\ InPath(CurCall.pkg, CurCall.path)
    /\ cycle_detected' = TRUE
    /\ EarlyReturn

\* mutant: the package is marked visited before the filter is consulted
SkipReturn_MarksVisited ==
    /\ HasCall
    /\ ~DepthLimitReached(CurCall.depth)
    /\ ~InPath(CurCall.pkg, CurCall.path)
    /\ should_skip_package(CurCall.pkg)
    /\ stack' = Unwind(Advanced)
    /\ pc' = PcAfter(Unwind(Advanced))
    /\ visited_packages' = visited_packages \cup {CurCall.pkg}
    /\ UNCHANGED <<config, source, universe_order, failing, earlier,
                   file_lines, lines_read, dependency_graph,
                   reverse_dependency_graph, lookups, levels, cycle_detected>>

SkipReturn ==
    /\ HasCall
    /\ ~DepthLimitReached(CurCall.depth)
    /\ ~InPath(CurCall.pkg, CurCall.path)
    /\ should_skip_package(CurCall.pkg)
    /\ EarlyReturn
    /\ UNCHANGED cycle_detected

VisitedReturn ==
    /\ HasCall
    /\ ~DepthLimitReached(CurCall.depth)
    /\ ~InPath(CurCall.pkg, CurCall.path)
    /\ ~should_skip_package(CurCall.pkg)
    /\ CurCall.pkg \in visited_packages
    /\ EarlyReturn
    /\ UNCHANGED cycle_detected

\* d[k] = v on a dict
DictSet(d, k, v) == [x \in (DOMAIN d) \cup {k} |-> IF x = k THEN v ELSE d[x]]

\* dict.get(k, [])
DictGet(d, k) == IF k \in DOMAIN d THEN d[k] ELSE <<>>

Frame(call, deps) ==
    [pkg |-> call.pkg, depth |-> call.depth, path |-> call.path, deps |-> deps, i |-> 1]

\* mutant: a package without dependencies gets no key
Recorded_NonEmptyOnly(graph, pkg, deps) ==
    IF deps = <<>> THEN graph ELSE DictSet(graph, pkg, deps)

\* self.dependency_graph[start_package] = dependencies
Recorded(graph, pkg, deps) == DictSet(graph, pkg, deps)

\* mutant: get_dependencies lets the exception through; the handler of the
\* traversal catches it after the package was marked and before it is recorded
ExpandForward_NoCatch ==
    /\ ~config.reverse_mode
    /\ HasCall
    /\ ~DepthLimitReached(CurCall.depth)
    /\ ~InPath(CurCall.pkg, CurCall.path)
    /\ ~should_skip_package(CurCall.pkg)
    /\ CurCall.pkg \notin visited_packages
    /\ visited_packages' = visited_packages \cup {CurCall.pkg}
    /\ lookups' = Append(lookups, <<"source", CurCall.pkg>>)
    /\ IF LookupRaises(config, CurCall.pkg)
       THEN /\ dependency_graph' = dependency_graph
            /\ stack' = Unwind(Advanced)
            /\ pc' = PcAfter(Unwind(Advanced))
       ELSE /\ dependency_graph' =
                  Recorded(dependency_graph, CurCall.pkg, SourceGet(CurCall.pkg))
            /\ stack' = Unwind(Append(Advanced, Frame(CurCall, SourceGet(CurCall.pkg))))
            /\ pc' = PcAfter(Unwind(Append(Advanced, Frame(CurCall, SourceGet(CurCall.pkg)))))
    /\ UNCHANGED <<config, source, universe_order, failing, earlier,
                   file_lines, lines_read, reverse_dependency_graph,
                   cycle_detected, levels>>

\* mutant: a package that was already visited is expanded again
ExpandForward_Revisits ==
    /\ ~config.reverse_mode
    /\ HasCall
    /\ ~DepthLimitReached(CurCall.depth)
    /\ ~InPath(CurCall.pkg, CurCall.path)
    /\ ~should_skip_package(CurCall.pkg)
    /\ visited_packages' = visited_packages \cup {CurCall.pkg}
    /\ lookups' = Append(lookups, <<"source", CurCall.pkg>>)
    /\ LET dependencies == get_dependencies(CurCall.pkg) IN
         /\ dependency_graph' = Recorded(dependency_graph, CurCall.pkg, dependencies)
         /\ stack' = Unwind(Append(Advanced, Frame(CurCall, dependencies)))
         /\ pc' = PcAfter(Unwind(Append(Advanced, Frame(CurCall, dependencies))))
    /\ UNCHANGED <<config, source, universe_order, failing, earlier,
                   file_lines, lines_read, reverse_dependency_graph,
                   cycle_detected, levels>>

\* bfs_build_dependency_graph past its four early returns
ExpandForward ==
    /\ ~config.reverse_mode
    /\ HasCall
    /\ ~DepthLimitReached(CurCall.depth)
    /\ ~InPath(CurCall.pkg, CurCall.path)
    /\ ~should_skip_package(CurCall.pkg)
    /\ CurCall.pkg \notin visited_packages
    /\ visited_packages' = visited_packages \cup {CurCall.pkg}
    /\ lookups' = Append(lookups, <<"source", CurCall.pkg>>)
    /\ LET dependencies == get_dependencies(CurCall.pkg) IN
         /\ dependency_graph' = Recorded(dependency_graph, CurCall.pkg, dependencies)
         /\ stack' = Unwind(Append(Advanced, Frame(CurCall, dependencies)))
         /\ pc' = PcAfter(Unwind(Append(Advanced, Frame(CurCall, dependencies))))
    /\ UNCHANGED <<config, source, universe_order, failing, earlier,
                   file_lines, lines_read, reverse_dependency_graph,
                   cycle_detected, levels>>

\* mutant: the reverse traversal follows the forward list of the package
ExpandReverse_ReadsSource ==
    /\ config.reverse_mode
    /\ HasCall
    /\ ~DepthLimitReached(CurCall.depth)
    /\ ~InPath(CurCall.pkg, CurCall.path)
    /\ ~should_skip_package(CurCall.pkg)
    /\ CurCall.pkg \notin visited_packages
    /\ visited_packages' = visited_packages \cup {CurCall.pkg}
    /\ lookups' = Append(lookups, <<"index", CurCall.pkg>>)
    /\ LET dependents == SourceGet(CurCall.pkg) IN
         /\ dependency_graph' = Recorded(dependency_graph, CurCall.pkg, dependents)
         /\ stack' = Unwind(Append(Advanced, Frame(CurCall, dependents)))
         /\ pc' = PcAfter(Unwind(Append(Advanced, Frame(CurCall, dependents))))
    /\ UNCHANGED <<config, source, universe_order, failing, earlier,
                   file_lines, lines_read, reverse_dependency_graph,
                   cycle_detected, levels>>

\* bfs_build_reverse_dependency_graph past its four early returns
ExpandReverse ==
    /\ config.reverse_mode
    /\ HasCall
    /\ ~DepthLimitReached(CurCall.depth)
    /\ ~InPath(CurCall.pkg, CurCall.path)
    /\ ~should_skip_package(CurCall.pkg)
    /\ CurCall.pkg \notin visited_packages
    /\ visited_packages' = visited_packages \cup {CurCall.pkg}
    /\ lookups' = Append(lookups, <<"index", CurCall.pkg>>)
    /\ LET dependents == DictGet(reverse_dependency_graph, CurCall.pkg) IN
         /\ dependency_graph' = Recorded(dependency_graph, CurCall.pkg, dependents)
         /\ stack' = Unwind(Append(Advanced, Frame(CurCall, dependents)))
         /\ pc' = PcAfter(Unwind(Append(Advanced, Frame(CurCall, dependents))))
    /\ UNCHANGED <<config, source, universe_order, failing, earlier,
                   file_lines, lines_read, reverse_dependency_graph,
                   cycle_detected, levels>>

----------------------------------------------------------------------------
(* build_complete_dependency_graph *)

EmptyDict == <<>>

\* mutant: the edge is entered in the forward direction
RECURSIVE AppendDependent_WrongWay(_, _, _)
AppendDependent_WrongWay(rev, dependencies, package) ==
    IF dependencies = <<>> THEN rev
    ELSE AppendDependent_WrongWay(
            DictSet(rev, package, Append(DictGet(rev, package), Head(dependencies))),
            Tail(dependencies), package)

\* for dep in dependencies: reverse[dep].append(package)
RECURSIVE AppendDependent(_, _, _)
AppendDependent(rev, dependencies, package) ==
    IF dependencies = <<>> THEN rev
    ELSE AppendDependent(
            DictSet(rev, Head(dependencies),
                    Append(DictGet(rev, Head(dependencies)), package)),
            Tail(dependencies), package)

\* the loop over the packages in the order the fixture enumerates them
RECURSIVE InvertGraph(_, _, _)
InvertGraph(rev, order, graph) ==
    IF order = <<>> THEN rev
    ELSE InvertGraph(AppendDependent(rev, graph[Head(order)], Head(order)),
                     Tail(order), graph)

\* mutant: the online branch does not raise
BuildRaises_OfflineOnly(c) ==
    \/ RepoType(c.test_repo_path) = "raise"
    \/ RepoType(c.test_repo_path) = "test_format" /\ ~FixtureLoads(c.test_repo_path)

\* whether build_complete_dependency_graph raises
BuildRaises(c) ==
    \/ c.work_mode = "online"
    \/ RepoType(c.test_repo_path) = "raise"
    \/ RepoType(c.test_repo_path) = "test_format" /\ ~FixtureLoads(c.test_repo_path)

BuildCompleteOk ==
    /\ pc = "build_complete"
    /\ ~BuildRaises(config)
    /\ dependency_graph' = source
    /\ reverse_dependency_graph' = InvertGraph(EmptyDict, universe_order, source)
    /\ pc' = "call_root"
    /\ UNCHANGED <<config, source, universe_order, failing, earlier,
                   file_lines, lines_read, stack, visited_packages,
                   cycle_detected, lookups, levels>>

\* the exception reaches run(), which exits with code 1
BuildCompleteError ==
    /\ pc = "build_complete"
    /\ BuildRaises(config)
    /\ pc' = "exit1"
    /\ UNCHANGED <<config, source, universe_order, failing, earlier,
                   file_lines, lines_read, stack, dependency_graph,
                   reverse_dependency_graph, visited_packages, cycle_detected,
                   lookups, levels>>

----------------------------------------------------------------------------
(* display_detailed_analysis and calculate_dependency_level *)

Max(S) == CHOOSE x \in S : \A y \in S : y <= x

RecursionError == 0 - 1

\* A chain of calls longer than the number of keys has entered some key
\* twice; the recursion keeps no memory, so it then never returns and Python
\* raises RecursionError.
RecursionFuel(graph) == Cardinality(DOMAIN graph) + 1

\* mutant: a package without dependencies is not told apart
RECURSIVE LevelOf_NoLeafCase(_, _, _)
LevelOf_NoLeafCase(graph, package, fuel) ==
    IF fuel = 0 THEN RecursionError
    ELSE LET children == {LevelOf_NoLeafCase(graph, dep, fuel - 1) :
                            dep \in SeqToSet(graph[package]) \cap DOMAIN graph}
         IN  IF RecursionError \in children THEN RecursionError
             ELSE Max(children \cup {0}) + 1

RECURSIVE LevelOf(_, _, _)
LevelOf(graph, package, fuel) ==
    IF fuel = 0 THEN RecursionError
    ELSE IF graph[package] = <<>> THEN 0
    ELSE LET children == {LevelOf(graph, dep, fuel - 1) :
                            dep \in SeqToSet(graph[package]) \cap DOMAIN graph}
         IN  IF RecursionError \in children THEN RecursionError
             ELSE Max(children \cup {0}) + 1

calculate_dependency_level(graph, package) == LevelOf(graph, package, RecursionFuel(graph))

\* whether the analysis calls calculate_dependency_level at all
ComputesLevels == dependency_graph # EmptyDict /\ ~config.reverse_mode

AnalysisRaises ==
    /\ ComputesLevels
    /\ \E p \in DOMAIN dependency_graph :
          calculate_dependency_level(dependency_graph, p) = RecursionError

DisplayOk ==
    /\ pc = "display"
    /\ ~AnalysisRaises
    /\ levels' = IF ComputesLevels
                 THEN [p \in DOMAIN dependency_graph |->
                          calculate_dependency_level(dependency_graph, p)]
                 ELSE levels
    /\ pc' = "exit0"
    /\ UNCHANGED <<config, source, universe_order, failing, earlier,
                   file_lines, lines_read, stack, dependency_graph,
                   reverse_dependency_graph, visited_packages, cycle_detected, lookups>>

\* the RecursionError reaches run(), which exits with code 1
DisplayError ==
    /\ pc = "display"
    /\ AnalysisRaises
    /\ pc' = "exit1"
    /\ UNCHANGED <<config, source, universe_order, failing, earlier,
                   file_lines, lines_read, stack, dependency_graph,
                   reverse_dependency_graph, visited_packages, cycle_detected,
                   lookups, levels>>

----------------------------------------------------------------------------
(* create_config *)

CreateConfigOk ==
    /\ pc = "create_config"
    /\ ValidateErrors(config) = <<>>
    /\ config' = Validated(config)
    /\ pc' = IF config.reverse_mode THEN "build_complete" ELSE "call_root"
    /\ UNCHANGED <<source, universe_order, failing, earlier,
                   file_lines, lines_read, stack, dependency_graph,
                   reverse_dependency_graph, visited_packages, cycle_detected,
                   lookups, levels>>

\* mutant: the errors are printed and the run goes on to the traversal
CreateConfigError_GoesOn ==
    /\ pc = "create_config"
    /\ ValidateErrors(config) # <<>>
    /\ pc' = "call_root"
    /\ UNCHANGED <<config, source, universe_order, failing, earlier,
                   file_lines, lines_read, stack, dependency_graph,
                   reverse_dependency_graph, visited_packages, cycle_detected,
                   lookups, levels>>

CreateConfigError ==
    /\ pc = "create_config"
    /\ ValidateErrors(config) # <<>>
    /\ pc' = "exit1"
    /\ UNCHANGED <<config, source, universe_order, failing, earlier,
                   file_lines, lines_read, stack, dependency_graph,
                   reverse_dependency_graph, visited_packages, cycle_detected,
                   lookups, levels>>

----------------------------------------------------------------------------
(* The inputs: fixtures, generated graphs, configurations *)

\* simple_test.txt, cycle_test.txt of create_test_repository_files
SimpleOrder == <<PkgA, PkgB, PkgC, PkgD, PkgE, PkgF>>
SimpleTest ==
    (PkgA :> <<PkgB, PkgC>>) @@ (PkgB :> <<PkgD>>) @@ (PkgC :> <<PkgD, PkgE>>) @@
    (PkgD :> <<>>) @@ (PkgE :> <<PkgF>>) @@ (PkgF :> <<>>)
CycleTest ==
    (PkgA :> <<PkgB>>) @@ (PkgB :> <<PkgC>>) @@ (PkgC :> <<PkgA>>) @@
    (PkgD :> <<PkgE>>) @@ (PkgE :> <<PkgD, PkgF>>) @@ (PkgF :> <<>>)

\* all lists of length n over the set S
RECURSIVE ListsOver(_, _)
ListsOver(S, n) ==
    IF n = 0 THEN {<<>>}
    ELSE {Append(l, x) : l \in ListsOver(S, n - 1), x \in S}

NoDuplicates(l) == \A i, j \in 1..Len(l) : l[i] = l[j] => i = j

\* the lists of length n a line of package p may hold; a clean list names no
\* package twice and not p itself
LineLists(S, p, n, clean) ==
    IF clean THEN {l \in ListsOver(S \ {p}, n) : NoDuplicates(l)}
    ELSE ListsOver(S, n)

\* the lists of the first k packages of `order`, with at most `budget` edges
RECURSIVE GenLines(_, _, _, _)
GenLines(order, k, budget, clean) ==
    IF k = 0 THEN {<<>>}
    ELSE UNION {
           {Append(g, l) : g \in GenLines(order, k - 1, budget - Len(l), clean)} :
           l \in UNION {LineLists(SeqToSet(order), order[k], n, clean) : n \in 0..budget}}

GraphOf(order, lines) ==
    [p \in SeqToSet(order) |-> lines[CHOOSE i \in 1..Len(order) : order[i] = p]]

AnyOrder == SubSeq(GenOrder, 1, 3)
AnyGraphs == {GraphOf(AnyOrder, ls) : ls \in GenLines(AnyOrder, Len(AnyOrder), MaxEdgesAny, FALSE)}
CleanGraphs == {GraphOf(GenOrder, ls) : ls \in GenLines(GenOrder, Len(GenOrder), MaxEdges, TRUE)}
DupFree(g) == \A p \in DOMAIN g : NoDuplicates(g[p])

DepthArgs == {<<>>} \cup {<<d>> : d \in 1..MaxDepthArg}
Filters == {<<>>, <<"b">>, <<"A">>}
FailSets == {{}} \cup {{AnyOrder[i]} : i \in 1..Len(AnyOrder)}

Args(name, url, path, mode, depth, filter, rev) ==
    [package_name |-> name, repository_url |-> url, test_repo_path |-> path,
     work_mode |-> mode, max_depth |-> depth, filter_substring |-> filter,
     reverse_mode |-> rev]

\* arguments validate rejects, and accepted arguments whose source cannot be read
DegenerateArgs ==
    {Args(PkgA, sp[1], sp[2], sp[3], <<>>, <<>>, rev) :
        sp \in {<<"", "", NoneVal>>, <<UrlNuget, PathFixture, NoneVal>>,
                <<UrlFtp, "", NoneVal>>, <<"", PathMissing, NoneVal>>,
                <<UrlNuget, "", "offline">>, <<"", PathFixture, "online">>,
                <<"", PathEmptyFile, NoneVal>>, <<"", PathEmptyDir, NoneVal>>},
        rev \in BOOLEAN}
    \cup {Args(n, "", PathFixture, NoneVal, <<>>, <<>>, FALSE) : n \in {<<>>, <<" ">>}}
    \cup {Args(PkgA, "", PathFixture, NoneVal, <<0>>, <<>>, FALSE)}
    \cup {Args(PkgA, UrlNuget, "", NoneVal, d, <<>>, TRUE) : d \in DepthArgs}

\* every combination of the fields validate reads
ValidationArgs ==
    {Args(n, url, path, mode, d, <<>>, FALSE) :
        n \in {PkgA, <<>>, <<" ">>},
        url \in {"", UrlNuget, UrlFtp},
        path \in {"", PathFixture, PathMissing},
        mode \in {NoneVal, "online", "offline"},
        d \in {<<>>, <<0 - 1>>, <<0>>, <<1>>}}

InitialState(c, g, order, f) ==
    /\ config = c
    /\ source = g
    /\ universe_order = order
    /\ failing = f
    /\ pc = "create_config"
    /\ stack = <<>>
    /\ dependency_graph = EmptyDict
    /\ reverse_dependency_graph = EmptyDict
    /\ visited_packages = {}
    /\ cycle_detected = FALSE
    /\ lookups = <<>>
    /\ levels = EmptyDict
    /\ earlier = <<>>
    /\ file_lines = <<>>
    /\ lines_read = 0

\* a text fixture holding a generated graph with arbitrary lists
InitFixtureAny ==
    \E g \in AnyGraphs, d \in DepthArgs, fl \in Filters, rev \in BOOLEAN :
        InitialState(Args(PkgA, "", PathFixture, NoneVal, d, fl, rev), g, AnyOrder, {})

\* a text fixture holding a generated graph with more edges
InitFixtureClean ==
    \E g \in CleanGraphs, d \in DepthArgs :
        InitialState(Args(PkgA, "", PathFixture, NoneVal, d, <<>>, FALSE), g, GenOrder, {})

\* the registry: its lists come out of list(set(...)), and a lookup may fail
InitOnline ==
    \E g \in {x \in AnyGraphs : DupFree(x)}, d \in DepthArgs, f \in FailSets :
        InitialState(Args(PkgA, UrlNuget, "", NoneVal, d, <<>>, FALSE), g, AnyOrder, f)

\* a directory of .nuspec files: its lists come out of list(set(...)) too
InitNuspec ==
    \E g \in {x \in AnyGraphs : DupFree(x)}, d \in DepthArgs, rev \in BOOLEAN :
        InitialState(Args(PkgA, "", PathNuspecDir, "offline", d, <<>>, rev), g, AnyOrder, {})

\* the fixtures the program writes on its first run
InitShipped ==
    \E g \in {SimpleTest, CycleTest}, n \in SeqToSet(SimpleOrder) \cup {PkgAb},
       d \in DepthArgs, fl \in Filters \cup {<<"a", "B">>}, rev \in BOOLEAN :
        InitialState(Args(n, "", PathFixture, NoneVal, d, fl, rev), g, SimpleOrder, {})

InitDegenerate ==
    \E c \in DegenerateArgs : InitialState(c, SimpleTest, SimpleOrder, {})

InitValidation ==
    \E c \in ValidationArgs : InitialState(c, SimpleTest, SimpleOrder, {})

Init ==
    \/ InitFixtureAny
    \/ InitFixtureClean
    \/ InitOnline
    \/ InitNuspec
    \/ InitShipped
    \/ InitDegenerate
    \/ InitValidation

Next ==
    \/ CreateConfigOk
    \/ CreateConfigError
    \/ BuildCompleteOk
    \/ BuildCompleteError
    \/ DepthReturn
    \/ CycleReturn
    \/ SkipReturn
    \/ VisitedReturn
    \/ ExpandForward
    \/ ExpandReverse
    \/ DisplayOk
    \/ DisplayError

Spec == Init /\ [][Next]_vars

\* the inputs with arbitrary lists (self-dependencies, repeated names, cycles),
\* the shipped fixtures and the degenerate configurations, without a maximum
\* depth or with a maximum depth of 2
InitFair ==
    /\ InitFixtureAny \/ InitOnline \/ InitShipped \/ InitDegenerate
    /\ config.max_depth \in {<<>>, <<2>>}

\* the program is one sequential process: a step that can be taken is taken
SpecFair == InitFair /\ [][Next]_vars /\ WF_vars(Next)

----------------------------------------------------------------------------
(* A second build over the same inputs *)

\* what a finished build leaves to compare with
Finished ==
    [dependency_graph |-> dependency_graph, visited_packages |-> visited_packages,
     cycle_detected |-> cycle_detected]

\* mutant: the new visualizer takes over the visited set of the earlier one
BuildAgain_KeepsVisited ==
    /\ earlier = <<>>
    /\ pc \in {"exit0", "exit1"}
    /\ ValidateErrors(config) = <<>> /\ ~config.reverse_mode
    /\ earlier' = Finished
    /\ pc' = "call_root"
    /\ stack' = <<>>
    /\ dependency_graph' = EmptyDict
    /\ reverse_dependency_graph' = EmptyDict
    /\ cycle_detected' = FALSE
    /\ lookups' = <<>>
    /\ levels' = EmptyDict
    /\ UNCHANGED <<config, source, universe_order, failing,
                   file_lines, lines_read, visited_packages>>

\* the program is started once more on the same arguments and the same source:
\* main() constructs a new DependencyVisualizer, whose create_config returns
\* the same config, and run() reaches the forward traversal
BuildAgain ==
    /\ earlier = <<>>
    /\ pc \in {"exit0", "exit1"}
    /\ ValidateErrors(config) = <<>> /\ ~config.reverse_mode
    /\ earlier' = Finished
    /\ pc' = "call_root"
    /\ stack' = <<>>
    /\ dependency_graph' = EmptyDict
    /\ reverse_dependency_graph' = EmptyDict
    /\ visited_packages' = {}
    /\ cycle_detected' = FALSE
    /\ lookups' = <<>>
    /\ levels' = EmptyDict
    /\ UNCHANGED <<config, source, universe_order, failing, file_lines, lines_read>>

InitTwice == Init /\ ~config.reverse_mode

NextTwice ==
    \/ CreateConfigOk
    \/ CreateConfigError
    \/ DepthReturn
    \/ CycleReturn
    \/ SkipReturn
    \/ VisitedReturn
    \/ ExpandForward
    \/ DisplayOk
    \/ DisplayError
    \/ BuildAgain

SpecTwice == InitTwice /\ [][NextTwice]_vars

----------------------------------------------------------------------------
(* A second reverse build over the same fixture enumerated in another order *)

Reversed(order) == [i \in 1..Len(order) |-> order[Len(order) + 1 - i]]

Rotated(order, k) == SubSeq(order, k + 1, Len(order)) \o SubSeq(order, 1, k)

\* other orders in which the same lines (or .nuspec files) can be enumerated
Reorderings(order) ==
    ({Reversed(order)} \cup {Rotated(order, k) : k \in 1..(Len(order) - 1)}) \ {order}

\* the program is started once more on the same arguments over a fixture that
\* holds the same packages with the same lists, enumerated in another order
BuildReordered ==
    /\ earlier = <<>>
    /\ pc = "exit0"
    /\ ValidateErrors(config) = <<>> /\ config.reverse_mode
    /\ \E order \in Reorderings(universe_order) : universe_order' = order
    /\ earlier' = Finished
    /\ pc' = "build_complete"
    /\ stack' = <<>>
    /\ dependency_graph' = EmptyDict
    /\ reverse_dependency_graph' = EmptyDict
    /\ visited_packages' = {}
    /\ cycle_detected' = FALSE
    /\ lookups' = <<>>
    /\ levels' = EmptyDict
    /\ UNCHANGED <<config, source, failing, file_lines, lines_read>>

\* a text fixture of four packages, read for a reverse build
InitReverseClean ==
    \E g \in {GraphOf(GenOrder, ls) :
                ls \in GenLines(GenOrder, Len(GenOrder), MaxEdgesReordered, TRUE)},
       d \in DepthArgs :
        InitialState(Args(PkgA, "", PathFixture, NoneVal, d, <<>>, TRUE), g, GenOrder, {})

InitReordered == (Init /\ config.reverse_mode) \/ InitReverseClean

NextReordered ==
    \/ CreateConfigOk
    \/ CreateConfigError
    \/ BuildCompleteOk
    \/ BuildCompleteError
    \/ DepthReturn
    \/ CycleReturn
    \/ SkipReturn
    \/ VisitedReturn
    \/ ExpandReverse
    \/ DisplayOk
    \/ BuildReordered

SpecReordered == InitReordered /\ [][NextReordered]_vars

----------------------------------------------------------------------------
(* A forward build over the reverse index of a finished reverse build *)

\* the packages in the order in which they were expanded
VisitOrder == [i \in 1..Len(lookups) |-> lookups[i][2]]

\* the recorded lists of the visited packages
VisitedLists == [n \in visited_packages |-> dependency_graph[n]]

\* what a finished traversal leaves to compare with
Traversed ==
    [visit_order |-> VisitOrder, lists |-> VisitedLists,
     cycle_detected |-> cycle_detected]

\* the program is started once more without --reverse, with the same root,
\* max depth and filter, over a fixture whose line for a package is the entry
\* of that package in the reverse index just built
BuildMirrored ==
    /\ earlier = <<>>
    /\ pc = "exit0"
    /\ ValidateErrors(config) = <<>> /\ config.reverse_mode
    /\ earlier' = Traversed
    /\ source' = reverse_dependency_graph
    /\ config' = [config EXCEPT !.reverse_mode = FALSE]
    /\ pc' = "call_root"
    /\ stack' = <<>>
    /\ dependency_graph' = EmptyDict
    /\ reverse_dependency_graph' = EmptyDict
    /\ visited_packages' = {}
    /\ cycle_detected' = FALSE
    /\ lookups' = <<>>
    /\ levels' = EmptyDict
    /\ UNCHANGED <<universe_order, failing, file_lines, lines_read>>

InitMirrored == (Init /\ config.reverse_mode) \/ InitReverseClean

NextMirrored ==
    \/ CreateConfigOk
    \/ CreateConfigError
    \/ BuildCompleteOk
    \/ BuildCompleteError
    \/ DepthReturn
    \/ CycleReturn
    \/ SkipReturn
    \/ VisitedReturn
    \/ ExpandReverse
    \/ ExpandForward
    \/ DisplayOk
    \/ DisplayError
    \/ BuildMirrored

SpecMirrored == InitMirrored /\ [][NextMirrored]_vars

----------------------------------------------------------------------------
(* TestRepository.load_test_repository, line by line *)

Arrow == <<"-", ">">>

\* str.split('->'): the pieces between the occurrences of the separator,
\* which are found from the left
RECURSIVE SplitArrow(_)
SplitArrow(s) ==
    IF Contains(s, Arrow)
    THEN LET k == CHOOSE k \in 1..(Len(s) - 1) :
                      /\ SubSeq(s, k, k + 1) = Arrow
                      /\ ~Contains(SubSeq(s, 1, k), Arrow)
         IN  <<SubSeq(s, 1, k - 1)>> \o SplitArrow(SubSeq(s, k + 2, Len(s)))
    ELSE <<s>>

\* str.split(): the words between runs of blanks
RECURSIVE SplitBlanks(_)
SplitBlanks(s) ==
    LET t == LStrip(s)
    IN  IF t = <<>> THEN <<>>
        ELSE LET n == CHOOSE n \in 1..Len(t) :
                          /\ n = Len(t) \/ t[n + 1] = " "
                          /\ \A i \in 1..n : t[i] # " "
             IN  <<SubSeq(t, 1, n)>> \o SplitBlanks(SubSeq(t, n + 1, Len(t)))

\* the body of the loop over the lines: what one line does to the dict
LoadedLine(graph, rawline) ==
    LET line == Strip(rawline)
        parts == SplitArrow(line)
    IN  IF Contains(line, Arrow) /\ Len(parts) = 2
        THEN DictSet(graph, Strip(parts[1]), SplitBlanks(parts[2]))
        ELSE graph

\* the key order of a dict after d[k] = v
KeysAfterSet(order, graph, graphAfter) ==
    IF DOMAIN graphAfter = DOMAIN graph THEN order
    ELSE Append(order, CHOOSE k \in DOMAIN graphAfter : k \notin DOMAIN graph)

\* mutant: a package that has an entry keeps it
LoadLine_KeepsFirst ==
    /\ pc = "load"
    /\ lines_read < Len(file_lines)
    /\ LET after == LoadedLine(source, file_lines[lines_read + 1]) IN
         /\ source' = IF DOMAIN after = DOMAIN source THEN source ELSE after
         /\ universe_order' = KeysAfterSet(universe_order, source, after)
    /\ lines_read' = lines_read + 1
    /\ UNCHANGED <<config, failing, earlier, file_lines, pc, stack, dependency_graph,
                   reverse_dependency_graph, visited_packages, cycle_detected,
                   lookups, levels>>

\* one turn of the loop `for line in lines`
LoadLine ==
    /\ pc = "load"
    /\ lines_read < Len(file_lines)
    /\ LET after == LoadedLine(source, file_lines[lines_read + 1]) IN
         /\ source' = after
         /\ universe_order' = KeysAfterSet(universe_order, source, after)
    /\ lines_read' = lines_read + 1
    /\ UNCHANGED <<config, failing, earlier, file_lines, pc, stack, dependency_graph,
                   reverse_dependency_graph, visited_packages, cycle_detected,
                   lookups, levels>>

\* the loop is over and the dict holds a package
LoadDone ==
    /\ pc = "load"
    /\ lines_read = Len(file_lines)
    /\ source # EmptyDict
    /\ pc' = "loaded"
    /\ UNCHANGED <<config, source, universe_order, failing, earlier, file_lines,
                   lines_read, stack, dependency_graph, reverse_dependency_graph,
                   visited_packages, cycle_detected, lookups, levels>>

\* the loop is over and the dict is empty: the loader raises
LoadError ==
    /\ pc = "load"
    /\ lines_read = Len(file_lines)
    /\ source = EmptyDict
    /\ pc' = "load_error"
    /\ UNCHANGED <<config, source, universe_order, failing, earlier, file_lines,
                   lines_read, stack, dependency_graph, reverse_dependency_graph,
                   visited_packages, cycle_detected, lookups, levels>>

\* the lines the generated files are made of: a left side, a separator, a right side
LineLefts == {<<"A">>, <<"B">>, <<" ", "A", " ">>}
LineSeparators == {Arrow, <<" ", "-", ">", " ">>, <<" ">>}
LineRights == {<<>>, <<"B">>, <<"C", " ", " ", "B">>, <<"B", "-", ">", "C">>}
FileLines == {l \o sep \o r : l \in LineLefts, sep \in LineSeparators, r \in LineRights}
Files == UNION {ListsOver(FileLines, n) : n \in 0..MaxLines}

InitLoad ==
    /\ file_lines \in Files
    /\ lines_read = 0
    /\ config = Args(PkgA, "", PathFixture, "offline", <<>>, <<>>, FALSE)
    /\ source = EmptyDict
    /\ universe_order = <<>>
    /\ failing = {}
    /\ pc = "load"
    /\ stack = <<>>
    /\ dependency_graph = EmptyDict
    /\ reverse_dependency_graph = EmptyDict
    /\ visited_packages = {}
    /\ cycle_detected = FALSE
    /\ lookups = <<>>
    /\ levels = EmptyDict
    /\ earlier = <<>>

NextLoad ==
    \/ LoadLine
    \/ LoadDone
    \/ LoadError

SpecLoad == InitLoad /\ [][NextLoad]_vars

----------------------------------------------------------------------------
(* Graph notions used by the properties *)

Succ(g, n) == IF n \in DOMAIN g THEN SeqToSet(g[n]) ELSE {}

RECURSIVE ReachFrom(_, _)
ReachFrom(g, S) ==
    LET N == S \cup UNION {Succ(g, n) : n \in S}
    IN  IF N = S THEN S ELSE ReachFrom(g, N)

OnCycle(g, n) == n \in ReachFrom(g, Succ(g, n))
HasCycle(g) == \E n \in DOMAIN g : OnCycle(g, n)
HasCycleFrom(g, root) == \E n \in ReachFrom(g, {root}) : OnCycle(g, n)

\* the source graph as the lookups answer it
Answers == [n \in DOMAIN source |-> get_dependencies(n)]

Root == config.package_name
ConfigAccepted == ValidateErrors(config) = <<>>
Unlimited == config.max_depth = <<>>
Unfiltered == config.filter_substring = <<>>

\* the traversal of a forward run has returned
ForwardBuilt ==
    /\ ConfigAccepted
    /\ ~config.reverse_mode
    /\ pc \in {"display", "exit0", "exit1"}

\* the traversal of a reverse run has returned
ReverseBuilt ==
    /\ ConfigAccepted
    /\ config.reverse_mode
    /\ pc \in {"display", "exit0"}

LookedUp == {lookups[i][2] : i \in 1..Len(lookups)}

----------------------------------------------------------------------------
(* C1 - C10 *)

\* C1: a forward build with no max depth and no filter over a source graph
\* that has a cycle reachable from the root ends with cycle_detected set.
C1_ReachableCycleIsReported ==
    (ForwardBuilt /\ Unlimited /\ Unfiltered /\ HasCycleFrom(Answers, Root))
        => cycle_detected

\* a cycle of three packages or more that does not close at its first step
C1_Witness ==
    /\ ForwardBuilt /\ Unlimited /\ Unfiltered
    /\ HasCycleFrom(Answers, Root)
    /\ ~OnCycle(Answers, Root)
    /\ Cardinality(visited_packages) >= 3
    /\ cycle_detected

\* C2: after a forward build the recorded map holds no directed cycle, and
\* cycle_test.txt from A gives exactly {A: [B], B: [C]}.
C2_NoCycleIsRecorded ==
    ForwardBuilt =>
        /\ ~HasCycle(dependency_graph)
        /\ (source = CycleTest /\ Root = PkgA /\ Unlimited /\ Unfiltered)
              => dependency_graph = (PkgA :> <<PkgB>>) @@ (PkgB :> <<PkgC>>)

\* the filter test of the specification: the name holds the filter, case ignored
NameMatchesFilter(name) == Contains(Lower(name), Lower(config.filter_substring))

\* C3: with a filter set, exactly the packages whose name does not hold the
\* filter are skipped: every expanded package holds it, and a root that holds
\* it is expanded.
C3_FilterSkipsNonMatching ==
    (ConfigAccepted /\ ~Unfiltered /\ pc \in {"display", "exit0", "exit1"}
       /\ ~(config.reverse_mode /\ BuildRaises(config)))
        => /\ \A n \in visited_packages : NameMatchesFilter(n)
           /\ NameMatchesFilter(Root) => Root \in visited_packages

\* C4: a package the filter check skips is never a key of the map of a forward
\* build, never marked visited, never looked up and never an ancestor of an
\* invocation; every visited package but the root is listed by a visited one.
C4_SkippedPackageLeavesNoTrace ==
    (ConfigAccepted /\ ~config.reverse_mode /\ pc # "create_config") =>
        /\ \A n \in DOMAIN dependency_graph \cup visited_packages \cup LookedUp :
              ~should_skip_package(n)
        /\ \A i \in 1..Len(stack) :
              /\ ~should_skip_package(stack[i].pkg)
              /\ \A j \in 1..Len(stack[i].path) : ~should_skip_package(stack[i].path[j])
        /\ \A n \in visited_packages \ {Root} :
              \E m \in visited_packages :
                  ~should_skip_package(m) /\ n \in Succ(dependency_graph, m)

\* a skipped package is listed by the root and one of its dependencies was
\* visited all the same, through a package that is not skipped
C4_Witness ==
    /\ ForwardBuilt /\ pc = "exit0"
    /\ \E n \in Succ(dependency_graph, Root) :
          /\ should_skip_package(n)
          /\ \E x \in Succ(Answers, n) : x \in visited_packages \ {Root}

\* the packages a path of at most k recorded edges reaches from S
RECURSIVE WithinSteps(_, _, _)
WithinSteps(g, S, k) ==
    IF k = 0 THEN S
    ELSE WithinSteps(g, S \cup UNION {Succ(g, n) : n \in S}, k - 1)

\* the length of the longest path without a repeated package that starts at n,
\* avoids `seen` and ends at a key of g; -1 when there is none
RECURSIVE LongestPathToKey(_, _, _)
LongestPathToKey(g, n, seen) ==
    LET longer == {LongestPathToKey(g, m, seen \cup {n}) : m \in Succ(g, n) \ (seen \cup {n})}
    IN  Max({x + 1 : x \in {y \in longer : y >= 0}}
            \cup {IF n \in DOMAIN g THEN 0 ELSE 0 - 1})

\* C5 as stated: with max depth d no path of recorded edges from the root to a
\* recorded package is longer than d.
C5_NoPathLongerThanMaxDepth ==
    (ForwardBuilt /\ ~Unlimited)
        => LongestPathToKey(dependency_graph, Root, {}) <= config.max_depth[1]

\* C5 as amended: with max depth d every recorded package is reached from the
\* root by some path of at most d - 1 recorded edges.
C5_RecordedWithinMaxDepth ==
    (ForwardBuilt /\ ~Unlimited)
        => DOMAIN dependency_graph
              \subseteq WithinSteps(dependency_graph, {Root}, config.max_depth[1] - 1)

\* a package recorded at the last depth allowed, whose dependencies are cut off
C5_Witness ==
    /\ ForwardBuilt /\ ~Unlimited
    /\ config.max_depth[1] >= 2
    /\ \E n \in DOMAIN dependency_graph :
          /\ n \notin WithinSteps(dependency_graph, {Root}, config.max_depth[1] - 2)
          /\ \E m \in Succ(dependency_graph, n) : m \notin DOMAIN dependency_graph

\* C6: with no max depth and no filter over an acyclic source graph the map of
\* a forward build has the packages reachable from the root as keys, each with
\* the list the source returns for it, and cycle_detected is not set;
\* simple_test.txt from A gives the fixture itself.
C6_AcyclicForwardBuildIsExact ==
    (ForwardBuilt /\ Unlimited /\ Unfiltered /\ ~HasCycleFrom(Answers, Root))
        => /\ DOMAIN dependency_graph = ReachFrom(Answers, {Root})
           /\ \A n \in DOMAIN dependency_graph : dependency_graph[n] = get_dependencies(n)
           /\ ~cycle_detected
           /\ (source = SimpleTest /\ Root = PkgA /\ config.test_repo_path = PathFixture
                 /\ config.work_mode = "offline")
                 => dependency_graph = SimpleTest

\* an acyclic graph in which a package is listed by two recorded packages
C6_Witness ==
    /\ ForwardBuilt /\ Unlimited /\ Unfiltered /\ pc = "exit0"
    /\ ~HasCycleFrom(Answers, Root)
    /\ \E n \in DOMAIN dependency_graph :
          /\ dependency_graph[n] # <<>>
          /\ \E a, b \in DOMAIN dependency_graph :
                a # b /\ n \in Succ(dependency_graph, a) /\ n \in Succ(dependency_graph, b)

\* C7: a package whose lookup fails in a forward build is recorded with an
\* empty list, and the traversal goes on: with no max depth and no filter every
\* package a recorded list names has been visited when the traversal returns.
C7_LookupFailureIsAbsorbed ==
    (ConfigAccepted /\ ~config.reverse_mode /\ pc # "create_config") =>
        /\ \A n \in visited_packages :
              LookupRaises(config, n)
                  => n \in DOMAIN dependency_graph /\ dependency_graph[n] = <<>>
        /\ (ForwardBuilt /\ Unlimited /\ Unfiltered)
              => \A n \in DOMAIN dependency_graph :
                    Succ(dependency_graph, n) \subseteq visited_packages

\* a failed lookup of a package that has dependencies, followed by the lookup
\* of one of its siblings
C7_Witness ==
    /\ ForwardBuilt /\ pc = "exit0"
    /\ \E i, j \in 1..Len(lookups) :
          /\ i < j
          /\ LookupRaises(config, lookups[i][2])
          /\ SourceGet(lookups[i][2]) # <<>>
          /\ ~LookupRaises(config, lookups[j][2])
          /\ dependency_graph[lookups[i][2]] = <<>>

\* C8: a reverse request in online mode ends in the error exit before any
\* traversal step: nothing is visited, looked up or recorded.
C8_ReverseOnlineIsRejected ==
    (ConfigAccepted /\ config.reverse_mode /\ DetectedMode(config) = "online") =>
        /\ pc \in {"create_config", "build_complete", "exit1"}
        /\ visited_packages = {}
        /\ lookups = <<>>
        /\ stack = <<>>
        /\ dependency_graph = EmptyDict

C8_Witness ==
    /\ ConfigAccepted /\ config.reverse_mode /\ config.work_mode = "online"
    /\ pc = "exit1"

\* C9, for forward runs: a forward run exits with code 1 only on a
\* configuration error; every other failure is absorbed.
C9_ForwardRunAbortsOnlyOnConfigError ==
    (pc = "exit1" /\ ~config.reverse_mode) => ~ConfigAccepted

\* C10: after a reverse build every key of the map holds the list of that
\* package's dependents, its entry of the reverse index.
C10_ReverseMapHoldsDependents ==
    ReverseBuilt =>
        \A k \in DOMAIN dependency_graph :
            dependency_graph[k] = DictGet(reverse_dependency_graph, k)

----------------------------------------------------------------------------
(* C11 - C20 *)

\* the traversal of a run, forward or reverse, has returned
TraversalReturned ==
    /\ ConfigAccepted
    /\ pc \in {"display", "exit0", "exit1"}
    /\ ~(config.reverse_mode /\ BuildRaises(config))

\* C11: every visited package is a key of the map, one with an empty list
\* included; this holds after every step of a forward or reverse traversal,
\* and so at its end.
C11_VisitedPackagesAreKeys ==
    visited_packages \subseteq DOMAIN dependency_graph

\* a reverse traversal that has returned after visiting a package nothing depends on
C11_Witness ==
    /\ TraversalReturned /\ config.reverse_mode
    /\ Cardinality(visited_packages) >= 2
    /\ \E n \in visited_packages : dependency_graph[n] = <<>>

\* a list without the later occurrences of a name it repeats
RECURSIVE FirstOccurrences(_)
FirstOccurrences(l) ==
    IF l = <<>> THEN <<>>
    ELSE LET rest == FirstOccurrences(SubSeq(l, 1, Len(l) - 1))
         IN  IF l[Len(l)] \in SeqToSet(rest) THEN rest ELSE Append(rest, l[Len(l)])

\* C12: every list a forward build stores names no package twice and is the
\* list the source returned without its repetitions, in the source's order.
C12_RecordedListsAreDeduplicated ==
    ForwardBuilt =>
        \A n \in DOMAIN dependency_graph :
            /\ NoDuplicates(dependency_graph[n])
            /\ dependency_graph[n] = FirstOccurrences(get_dependencies(n))

\* the keys of the map of a forward build, in the order the build inserted them
ForwardKeyOrder == [i \in 1..Len(lookups) |-> lookups[i][2]]

\* the inversion loop of build_complete_dependency_graph run over a map
Inverted(order, graph) == InvertGraph(EmptyDict, order, graph)

\* an index restricted to the packages of S; an entry left empty is dropped
Restricted(index, S) ==
    LET kept(k) == SelectSeq(index[k], LAMBDA x : x \in S)
    IN  [k \in {x \in DOMAIN index \cap S : kept(x) # <<>>} |-> kept(k)]

Occurrences(l, x) == Cardinality({i \in 1..Len(l) : l[i] = x})

\* the two lists hold the same names, each as often
SameNames(l, m) ==
    /\ Len(l) = Len(m)
    /\ \A x \in SeqToSet(l) : Occurrences(l, x) = Occurrences(m, x)

\* a forward build over a readable fixture, no max depth, no filter, no cycle
\* reachable from the root, has returned
AcyclicFixtureForwardBuilt ==
    /\ ForwardBuilt /\ Unlimited /\ Unfiltered
    /\ ~BuildRaises(config)
    /\ ~HasCycleFrom(source, Root)

\* C13 as stated: the inverted map of the forward build is the reverse index
\* of the universe restricted to the packages reachable from the root, list
\* for list.
C13_InvertedForwardMapIsReverseIndex ==
    AcyclicFixtureForwardBuilt =>
        Inverted(ForwardKeyOrder, dependency_graph)
            = Restricted(Inverted(universe_order, source), ReachFrom(source, {Root}))

\* C13 as amended: the two have the same keys, and the two lists of a key hold
\* the same dependents, each as often; their order may differ.
C13_InvertedForwardMapHoldsSameDependents ==
    AcyclicFixtureForwardBuilt =>
        LET inverted == Inverted(ForwardKeyOrder, dependency_graph)
            index == Restricted(Inverted(universe_order, source), ReachFrom(source, {Root}))
        IN  /\ DOMAIN inverted = DOMAIN index
            /\ \A k \in DOMAIN inverted : SameNames(inverted[k], index[k])

\* a reachable package with two reachable dependents and one that is not reachable
C13_Witness ==
    /\ AcyclicFixtureForwardBuilt /\ pc = "exit0"
    /\ \E k \in DOMAIN Inverted(ForwardKeyOrder, dependency_graph) :
          /\ Len(Inverted(ForwardKeyOrder, dependency_graph)[k]) >= 2
          /\ \E x \in SeqToSet(Inverted(universe_order, source)[k]) :
                x \notin ReachFrom(source, {Root})

C15_BuildStartsFromEmptyMap ==
    /\ pc = "call_root" => (dependency_graph = EmptyDict /\ visited_packages = {})
    /\ TraversalReturned => DOMAIN dependency_graph \subseteq visited_packages

\* C16: over a source graph with no cycle (for a forward build: none reachable
\* from the root) cycle_detected is never set, whatever the max depth and the
\* filter, also when a package is reached on several branches.
C16_AcyclicSourceSetsNoCycle ==
    (ConfigAccepted /\ pc # "create_config") =>
        ((IF config.reverse_mode THEN ~HasCycle(source) ELSE ~HasCycleFrom(Answers, Root))
            => ~cycle_detected)

\* a package with dependencies is listed by a package and by a dependency of
\* that package, so it is reached on two branches at different depths
C16_Witness ==
    /\ ForwardBuilt /\ pc = "exit0"
    /\ ~HasCycleFrom(Answers, Root)
    /\ ~cycle_detected
    /\ \E a, b, n \in DOMAIN dependency_graph :
          /\ a # b /\ a # n /\ b # n
          /\ b \in Succ(dependency_graph, a)
          /\ n \in Succ(dependency_graph, a) \cap Succ(dependency_graph, b)
          /\ dependency_graph[n] # <<>>

\* build_complete_dependency_graph has returned
ReverseIndexBuilt ==
    /\ ConfigAccepted /\ config.reverse_mode /\ ~BuildRaises(config)
    /\ pc \notin {"create_config", "build_complete"}

\* every name the fixture or the index holds
AllNames(graph, index) ==
    DOMAIN graph \cup DOMAIN index
        \cup UNION {SeqToSet(graph[k]) : k \in DOMAIN graph}
        \cup UNION {SeqToSet(index[k]) : k \in DOMAIN index}

\* C17: the reverse index is the exact inversion of the forward map of the
\* universe: a is in the index entry of b if and only if b is in the forward
\* list of a, as often as b is listed there, for every pair of packages.
C17_ReverseIndexIsExactInversion ==
    ReverseIndexBuilt =>
        \A a, b \in AllNames(source, reverse_dependency_graph) :
            /\ a \in SeqToSet(DictGet(reverse_dependency_graph, b))
                  <=> b \in SeqToSet(DictGet(source, a))
            /\ Occurrences(DictGet(reverse_dependency_graph, b), a)
                  = Occurrences(DictGet(source, a), b)

\* a package with two different dependents, beside a package nothing depends on
C17_Witness ==
    /\ ReverseIndexBuilt /\ pc = "exit0"
    /\ \E b \in DOMAIN reverse_dependency_graph :
          Cardinality(SeqToSet(reverse_dependency_graph[b])) >= 2
    /\ \E a \in DOMAIN source : a \notin DOMAIN reverse_dependency_graph /\ source[a] # <<>>

\* C18: a reverse build over the same universe enumerated in another order
\* visits the same packages and records the same set of dependents for each.
C18_ReverseBuildIgnoresEnumerationOrder ==
    (earlier # <<>> /\ ReverseBuilt) =>
        /\ visited_packages = earlier.visited_packages
        /\ \A n \in visited_packages :
              SeqToSet(DictGet(dependency_graph, n))
                  = SeqToSet(DictGet(earlier.dependency_graph, n))

\* the report of a forward run has computed the levels
LevelsComputed == pc = "exit0" /\ ComputesLevels

\* C19: for every key of an acyclic map the level is 0 exactly when the
\* recorded list is empty, and otherwise 1 plus the largest level of the
\* recorded dependencies that are keys (1 when none of them is a key).
C19_LevelIsOneMoreThanDeepestRecordedDependency ==
    (LevelsComputed /\ ~HasCycle(dependency_graph)) =>
        /\ DOMAIN levels = DOMAIN dependency_graph
        /\ \A p \in DOMAIN dependency_graph :
              /\ levels[p] = 0 <=> dependency_graph[p] = <<>>
              /\ dependency_graph[p] # <<>> =>
                    levels[p] = 1 + Max({levels[d] : d \in Succ(dependency_graph, p)
                                                        \cap DOMAIN dependency_graph}
                                        \cup {0})

\* a map with a package two levels up, reached by a shorter and a longer
\* chain, and a package whose only dependency was cut off by the max depth
C19_Witness ==
    /\ LevelsComputed
    /\ \E p, q \in DOMAIN dependency_graph :
          /\ levels[p] = 2
          /\ \E d \in Succ(dependency_graph, p) \cap DOMAIN dependency_graph : levels[d] = 0
          /\ levels[q] = 1
          /\ Succ(dependency_graph, q) \cap DOMAIN dependency_graph = {}

\* C20: the level computation returns a level for every key of the map a
\* forward build has produced, also over a source graph with a cycle reachable
\* from the root, because the map holds no cycle.
C20_LevelComputationTerminates ==
    ForwardBuilt =>
        /\ ~HasCycle(dependency_graph)
        /\ \A p \in DOMAIN dependency_graph :
              calculate_dependency_level(dependency_graph, p) # RecursionError

----------------------------------------------------------------------------
(* C21 - C30 *)

\* the positions at which a line holds the separator ->
ArrowPositions(l) == {k \in 1..(Len(l) - 1) : l[k] = "-" /\ l[k + 1] = ">"}

\* the numbers of the lines that hold the separator exactly once
EntryLines == {i \in 1..Len(file_lines) : Cardinality(ArrowPositions(file_lines[i])) = 1}

ArrowOf(l) == CHOOSE k \in ArrowPositions(l) : TRUE
LeftOf(l) == Strip(SubSeq(l, 1, ArrowOf(l) - 1))
RightOf(l) == SubSeq(l, ArrowOf(l) + 2, Len(l))

\* the words of a string: its longest runs free of blanks, from left to right
WordStarts(t) == {i \in 1..Len(t) : t[i] # " " /\ (i = 1 \/ t[i - 1] = " ")}
WordEnd(t, i) ==
    CHOOSE j \in i..Len(t) :
        (\A m \in i..j : t[m] # " ") /\ (j = Len(t) \/ t[j + 1] = " ")

RECURSIVE WordsFrom(_, _)
WordsFrom(t, starts) ==
    IF starts = {} THEN <<>>
    ELSE LET i == CHOOSE x \in starts : \A y \in starts : x <= y
         IN  <<SubSeq(t, i, WordEnd(t, i))>> \o WordsFrom(t, starts \ {i})

Words(t) == WordsFrom(t, WordStarts(t))

\* the last line that names package p on its left side
LastLineOf(p) ==
    CHOOSE i \in EntryLines :
        /\ LeftOf(file_lines[i]) = p
        /\ \A j \in EntryLines : LeftOf(file_lines[j]) = p => j <= i

\* C21: when the loader has gone through the file, the packages it holds are
\* the left sides of the lines with one ->, a line without -> adds nothing,
\* each package has the words right of the -> of its last line as its list, and
\* a package whose last line has nothing right of the -> has the empty list.
C21_FixtureLoadKeepsLastEntry ==
    (pc \in {"loaded", "load_error"}) =>
        /\ DOMAIN source = {LeftOf(file_lines[i]) : i \in EntryLines}
        /\ \A p \in DOMAIN source :
              /\ source[p] = Words(RightOf(file_lines[LastLineOf(p)]))
              /\ Strip(RightOf(file_lines[LastLineOf(p)])) = <<>> => source[p] = <<>>
        /\ pc = "load_error" <=> EntryLines = {}

\* a package with a list of two names on one line and nothing right of the ->
\* on a later line
C21_Witness ==
    /\ pc = "loaded"
    /\ \E i, j \in EntryLines :
          /\ i < j
          /\ LeftOf(file_lines[i]) = LeftOf(file_lines[j])
          /\ Len(Words(RightOf(file_lines[i]))) = 2
          /\ RightOf(file_lines[j]) = <<>>
          /\ source[LeftOf(file_lines[j])] = <<>>

(* C22: a configuration validate rejects ends the run with exit code 1
   before any traversal: the run is still in create_config or has exited
   with 1, no package is visited, no lookup was made, no invocation is
   active and neither map holds an entry. *)
C22_RejectedConfigStopsBeforeTraversal ==
    ~ConfigAccepted =>
        /\ pc \in {"create_config", "exit1"}
        /\ visited_packages = {}
        /\ lookups = <<>>
        /\ stack = <<>>
        /\ dependency_graph = EmptyDict
        /\ reverse_dependency_graph = EmptyDict
        /\ levels = EmptyDict

\* a run that ended with exit code 1 on a configuration with two errors
C22_Witness ==
    /\ pc = "exit1"
    /\ Len(ValidateErrors(config)) >= 2

(* C23: validate accepts a configuration only if exactly one of the
   repository URL and the fixture path is set and the maximum depth, when
   given, is at least 1. *)
C23_AcceptedConfigHasOneSourceAndPositiveDepth ==
    ConfigAccepted =>
        /\ (config.repository_url # "") # (config.test_repo_path # "")
        /\ config.max_depth = <<>> \/ config.max_depth[1] >= 1

\* an accepted configuration with a URL and a maximum depth, after its run
C23_Witness ==
    /\ ConfigAccepted
    /\ pc = "exit0"
    /\ config.repository_url # ""
    /\ config.test_repo_path = ""
    /\ config.max_depth = <<1>>
    /\ visited_packages # {}

(* C24: a package is expanded at most once during a traversal: the source
   (forward) or the reverse index (reverse) is asked at most once for any
   name, and since every expansion asks once and writes its key once, each
   key is written at most once; the names asked for are the visited ones. *)
C24_EachPackageIsExpandedAtMostOnce ==
    /\ NoDuplicates(lookups)
    /\ LookedUp = visited_packages

\* a forward build in which a package was reached a second time, from a
\* package expanded later, and four packages were looked up
C24_Witness ==
    /\ ForwardBuilt /\ pc = "exit0"
    /\ Len(lookups) >= 4
    /\ \E i, j, k \in 1..Len(lookups) :
          /\ i < j /\ j < k
          /\ lookups[j][2] \in Succ(dependency_graph, lookups[i][2])
          /\ lookups[j][2] \in Succ(dependency_graph, lookups[k][2])

(* C25: a reverse build over a graph does what a forward build with the same
   root, max depth and filter does over a source whose lookup returns the
   reverse-index entry of the graph: when the forward traversal has returned,
   its visit order, its recorded lists of the visited packages and its
   cycle_detected flag are those of the reverse build. *)
C25_ReverseBuildIsForwardBuildOverReverseIndex ==
    (earlier # <<>> /\ pc \in {"display", "exit0", "exit1"}) => Traversed = earlier

\* both builds are done; the reverse one expanded three packages, one with two
\* dependents, and met a cycle
C25_Witness ==
    /\ earlier # <<>> /\ pc \in {"exit0", "exit1"}
    /\ Len(earlier.visit_order) >= 3
    /\ earlier.cycle_detected
    /\ \E n \in DOMAIN earlier.lists : Len(earlier.lists[n]) >= 2

(* C26: an invocation of the traversal entered with current_depth at or above
   the maximum depth changes nothing: cycle_detected, visited_packages and the
   map are left as they were, also when the package is in its own ancestor
   chain; so every step that marks a package or writes a key is taken by an
   invocation whose depth is strictly below the maximum depth. *)
C26_InvocationAtMaxDepthChangesNothing ==
    [][(HasCall /\ config.max_depth # <<>>) =>
         /\ CurCall.depth >= config.max_depth[1] =>
               /\ cycle_detected' = cycle_detected
               /\ visited_packages' = visited_packages
               /\ dependency_graph' = dependency_graph
         /\ (visited_packages' # visited_packages \/ dependency_graph' # dependency_graph) =>
               CurCall.depth < config.max_depth[1]]_vars

\* a forward traversal with max depth 1 has returned from a root that names
\* itself: the invocation for the second A was entered at depth 1 with A in
\* its path, and no cycle is flagged
C26_Witness ==
    /\ ForwardBuilt /\ pc = "display"
    /\ config.max_depth = <<1>>
    /\ Root \in Succ(dependency_graph, Root)
    /\ visited_packages = {Root}
    /\ ~cycle_detected

\* path is a chain of recorded edges from the root that ends in an edge to node
IsAncestorChain(path, node, depth) ==
    /\ NoDuplicates(path)
    /\ Len(path) = depth
    /\ path # <<>> => path[1] = Root
    /\ \A i \in 1..Len(path) :
          LET next == IF i = Len(path) THEN node ELSE path[i + 1]
          IN  path[i] \in DOMAIN dependency_graph /\ next \in Succ(dependency_graph, path[i])

(* C27: at every invocation of the traversal the path argument is the chain
   of ancestors from the root to the package of the invocation, without that
   package: no name occurs twice in it, its length is current_depth, each
   consecutive pair of it is a recorded edge and so is the pair of its last
   name and the package. This holds for the invocation about to be entered and
   for every active one. *)
C27_PathIsTheAncestorChain ==
    /\ HasCall => IsAncestorChain(CurCall.path, CurCall.pkg, CurCall.depth)
    /\ \A k \in 1..Len(stack) :
          /\ IsAncestorChain(stack[k].path, stack[k].pkg, stack[k].depth)
          /\ stack[k].pkg \notin SeqToSet(stack[k].path)

\* an invocation is about to be entered, three levels or more below the root,
\* for a package other than the root that is among its own ancestors
C27_Witness ==
    /\ HasCall
    /\ Len(CurCall.path) >= 3
    /\ CurCall.pkg \in SeqToSet(CurCall.path)
    /\ CurCall.pkg # Root

(* C28: with a maximum depth d and no filter, every package that the root
   reaches by a path of fewer than d edges is a key of the map when a forward
   build has returned, in whatever order the branches were explored. *)
C28_PackagesWithinDepthAreRecorded ==
    (ForwardBuilt /\ ~Unlimited /\ Unfiltered) =>
        WithinSteps(Answers, {Root}, config.max_depth[1] - 1) \subseteq DOMAIN dependency_graph

(* C29: a forward or reverse traversal over a finite source graph, one with
   cycles or self-dependencies included and with or without a maximum depth,
   terminates: once run() has called the traversal for the root, the root
   invocation eventually returns and run() goes on to the report. *)
C29_TraversalTerminates ==
    (pc = "call_root") ~> (pc = "display")

\* a forward traversal without a maximum depth has returned from a source in
\* which a visited package names itself and two others lie on a common cycle
C29_Witness ==
    /\ ForwardBuilt /\ pc = "display"
    /\ Unlimited
    /\ \E n \in visited_packages : n \in Succ(dependency_graph, n)
    /\ \E n, m \in visited_packages :
          /\ n # m
          /\ m \in Succ(dependency_graph, n)
          /\ n \in Succ(dependency_graph, m)

(* C30: a configuration that validate has accepted has a work mode that
   matches its source: "online" implies the repository URL is set and
   "offline" implies the fixture path is set. *)
C30_AcceptedWorkModeMatchesSource ==
    (ConfigAccepted /\ pc # "create_config") =>
        /\ config.work_mode = "online" => config.repository_url # ""
        /\ config.work_mode = "offline" => config.test_repo_path # ""

====
